---- MODULE Spec2Model ----
(***************************************************************************)
(* The MMO landings standardization pipeline: standardize_data.py          *)
(* (standardize_nationality, load_and_standardize_year,                    *)
(* standardize_all_years) and load_data.py (load_mmo_file,                 *)
(* standardise_columns, create_database, main); and the question          *)
(* answering of query_engine.py (MMOQueryEngine.ask).                      *)
(*                                                                         *)
(* A pandas DataFrame is a record [cols, rows]: cols is the sequence of    *)
(* column labels (labels may repeat after a rename), rows a sequence of    *)
(* rows, each a sequence of cells aligned with cols.  A cell is a record   *)
(* [t, n, d, s]: t = "null" (NaN/None), t = "num" (the rational n/d in     *)
(* lowest terms) or t = "str" (the string s, a sequence of symbols).       *)
(***************************************************************************)
EXTENDS Integers, Sequences, FiniteSets, TLC

VARIABLES
    \* standardize_nationality applied to one value, then to its own result
    npc, nvalue, nonce, ntwice,
    \* one call of load_and_standardize_year
    ypc, yyear, yverbose, yfile, yresult, yprinted,
    \* a run of standardize_all_years or of load_data.main against the store
    pc, pipeline, output_path, verbose, year, files_left, all_data, loaded,
    combined, db, db0, runs, loads,
    \* what a run has printed and raised: the years named by "Skipping" lines,
    \* the exception that ended the run, and how often the run has come to
    \* its pd.concat
    warned, raised, concats,
    \* one call of MMOQueryEngine.ask: its position, its argument, the text
    \* of the model's response, its locals sql, results and error, what
    \* _run_query did, whether _summarise_results was called, and the
    \* dictionary it returned
    ask_pc, question, llm_response, sql, results, error, executed,
    summarised, result

nvars == <<npc, nvalue, nonce, ntwice>>
yvars == <<ypc, yyear, yverbose, yfile, yresult, yprinted>>
rvars == <<pc, pipeline, output_path, verbose, year, files_left, all_data,
           loaded, combined, db, db0, runs, loads, warned, raised, concats>>
qvars == <<ask_pc, question, llm_response, sql, results, error, executed,
           summarised, result>>
vars == <<nvars, yvars, rvars, qvars>>

----------------------------------------------------------------------------
(* Bounds of the model *)

\* longest response of the model, in symbols
MaxResponseLen == 5
\* most rows a query returns
MaxResultRows == 2

\* longest run of "UK", " ", "-" symbols before the word of a nationality
MaxPrefixLen == 8
\* longest run of such symbols after it
MaxSuffixLen == 1
\* most columns of a source file given to load_and_standardize_year
MaxCols == 2
\* most data rows of such a file
MaxRows == 2
\* most columns and rows of a source file read during a run
MaxRunCols == 1
MaxRunRows == 1
\* most source files parsed over all the runs against one store
MaxLoads == 2
\* most spreadsheet files in the data folder of load_data.main
MaxFolder == 2
\* most runs against one store
MaxRuns == 2

----------------------------------------------------------------------------
(* Cells *)

RECURSIVE GCD(_, _)
GCD(a, b) == IF b = 0 THEN a ELSE GCD(b, a % b)

NullCell == [t |-> "null", n |-> 0, d |-> 1, s |-> <<>>]
Num(a, b) == LET g == GCD(a, b) IN [t |-> "num", n |-> a \div g, d |-> b \div g, s |-> <<>>]
Str(x) == [t |-> "str", n |-> 0, d |-> 1, s |-> x]

\* pd.isna on a scalar
pd_isna(value) == value.t = "null"

SeqsUpTo(S, k) == UNION {[1..j -> S] : j \in 0..k}

----------------------------------------------------------------------------
(* standardize_nationality.  A string is a sequence of symbols: "UK" (two  *)
(* characters), " ", "-" (one character each) and whole words.             *)

\* "UK - ": five characters, four symbols
UK_PREFIX == <<"UK", " ", "-", " ">>

RECURSIVE lstrip(_)
lstrip(x) == IF x # <<>> /\ Head(x) = " " THEN lstrip(Tail(x)) ELSE x

RECURSIVE rstrip(_)
rstrip(x) ==
    IF x # <<>> /\ x[Len(x)] = " " THEN rstrip(SubSeq(x, 1, Len(x) - 1)) ELSE x

\* str.strip()
strip(x) == rstrip(lstrip(x))

\* str.startswith
startswith(x, p) == Len(x) >= Len(p) /\ SubSeq(x, 1, Len(p)) = p

\* the replacements dict and its .get(value, value)
replacements(x) ==
    IF x = <<"Faeroe Islands">> THEN <<"Faroe Islands">>
    ELSE IF x = <<"FRO">> THEN <<"Faroe Islands">>
    ELSE x

\* value[5:] after value.startswith("UK - ")
strip_uk_prefix(x) ==
    IF startswith(x, UK_PREFIX) THEN SubSeq(x, Len(UK_PREFIX) + 1, Len(x)) ELSE x

\* standardize_nationality looking the value up before it cuts the prefix
standardize_nationality_alias_first(value) ==
    IF pd_isna(value) THEN value
    ELSE Str(strip_uk_prefix(replacements(strip(value.s))))

standardize_nationality(value) ==
    IF pd_isna(value) THEN value
    ELSE Str(replacements(strip_uk_prefix(strip(value.s))))

Punct == {"UK", " ", "-"}
Words == {"Scotland", "FRO", "Faeroe Islands", "Faroe Islands"}

NatStrings ==
    {p \o w \o q : p \in SeqsUpTo(Punct, MaxPrefixLen),
                   w \in {<<>>} \cup {<<x>> : x \in Words},
                   q \in SeqsUpTo(Punct, MaxSuffixLen)}

NatInputs == {NullCell} \cup {Str(x) : x \in NatStrings}

NatOnce ==
    /\ npc = "input"
    /\ nonce' = standardize_nationality(nvalue)
    /\ npc' = "once"
    /\ UNCHANGED <<nvalue, ntwice, yvars, rvars, qvars>>

NatTwice ==
    /\ npc = "once"
    /\ ntwice' = standardize_nationality(nonce)
    /\ npc' = "twice"
    /\ UNCHANGED <<nvalue, nonce, yvars, rvars, qvars>>

----------------------------------------------------------------------------
(* DataFrames *)

Positions(df, P(_)) ==
    SelectSeq([i \in 1..Len(df.cols) |-> i], LAMBDA i : P(df.cols[i]))

\* the columns at the positions idx, in that order
TakeCols(df, idx) ==
    [cols |-> [k \in 1..Len(idx) |-> df.cols[idx[k]]],
     rows |-> [r \in 1..Len(df.rows) |->
                  [k \in 1..Len(idx) |-> df.rows[r][idx[k]]]]]

\* col in df.columns
HasCol(df, col) == \E i \in 1..Len(df.cols) : df.cols[i] = col

\* number of columns carrying the label col
CountCol(df, col) == Cardinality({i \in 1..Len(df.cols) : df.cols[i] = col})

\* df[col] when the label is unique: the Series, one cell per row
Series(df, col) ==
    LET i == CHOOSE j \in 1..Len(df.cols) : df.cols[j] = col
    IN  [r \in 1..Len(df.rows) |-> df.rows[r][i]]

\* df[col] = F(df[col]) cell by cell, on every column carrying the label
MapCol(df, col, F(_)) ==
    [cols |-> df.cols,
     rows |-> [r \in 1..Len(df.rows) |->
                  [i \in 1..Len(df.cols) |->
                      IF df.cols[i] = col THEN F(df.rows[r][i])
                      ELSE df.rows[r][i]]]]

\* df[col] = series: every column carrying the label is overwritten; a new
\* label is appended as the last column
SetCol(df, col, series) ==
    IF HasCol(df, col)
    THEN [cols |-> df.cols,
          rows |-> [r \in 1..Len(df.rows) |->
                       [i \in 1..Len(df.cols) |->
                           IF df.cols[i] = col THEN series[r]
                           ELSE df.rows[r][i]]]]
    ELSE [cols |-> Append(df.cols, col),
          rows |-> [r \in 1..Len(df.rows) |-> Append(df.rows[r], series[r])]]

\* df[col] = scalar
SetScalar(df, col, c) == SetCol(df, col, [r \in 1..Len(df.rows) |-> c])

\* df.drop(columns=...) / df.loc[:, mask]: the columns whose label satisfies Keep
KeepCols(df, Keep(_)) == TakeCols(df, Positions(df, Keep))

\* df.rename(columns=M)
Rename(df, M(_)) ==
    [cols |-> [i \in 1..Len(df.cols) |-> M(df.cols[i])], rows |-> df.rows]

\* df[names]: for each name in order, every column carrying that label
RECURSIVE SelectPositions(_, _)
SelectPositions(df, names) ==
    IF names = <<>> THEN <<>>
    ELSE Positions(df, LAMBDA c : c = Head(names))
         \o SelectPositions(df, Tail(names))

\* df[names] left out: the frame keeps every column it has
SelectColsKeepsAll(df, names) == df

\* df[names]: the columns carrying the labels of names, in the order of names
SelectCols(df, names) == TakeCols(df, SelectPositions(df, names))

----------------------------------------------------------------------------
(* standardize_data.py: load_and_standardize_year *)

\* the COLUMN_MAPPINGS dict as rename applies it: an unmapped label is kept
COLUMN_MAPPINGS(c) ==
    CASE c = "Month Landed" -> "month"
      [] c = "Month" -> "month"
      [] c = "Port of Landing" -> "port"
      [] c = "Port of landing" -> "port"
      [] c = "Port NUTS 2 area" -> "port_nuts2"
      [] c = "Port Nationality" -> "port_nationality"
      [] c = "Vessel Nationality" -> "vessel_nationality"
      [] c = "Vessel nationality" -> "vessel_nationality"
      [] c = "Length Group" -> "length_group"
      [] c = "Gear category" -> "gear_category"
      [] c = "Species" -> "species_name"
      [] c = "Species name" -> "species_name"
      [] c = "Species code" -> "species_code"
      [] c = "Species Group" -> "species_group"
      [] c = "Species group" -> "species_group"
      [] c = "Live weight (tonnes)" -> "live_weight_tonnes"
      [] c = "Sum of Live weight (tonnes)" -> "live_weight_tonnes"
      [] c = "Live Weight (tonnes)" -> "live_weight_tonnes"
      [] c = "Landed weight (tonnes)" -> "landed_weight_tonnes"
      [] c = "Sum of Landed weight (tonnes)" -> "landed_weight_tonnes"
      [] c = "Landed Weight (tonnes)" -> "landed_weight_tonnes"
      [] c = "Value(£000s)" -> "value_thousands"
      [] c = "Sum of Value(£)" -> "value_pounds"
      [] c = "Value (£000s)" -> "value_thousands"
      [] c = "Year" -> "year"
      [] OTHER -> c

standard_columns ==
    <<"year", "month", "port", "port_nuts2", "port_nationality",
      "vessel_nationality", "length_group", "gear_category", "species_code",
      "species_name", "species_group", "live_weight_tonnes",
      "landed_weight_tonnes", "value_thousands">>

\* range(2014, 2025)
\* the loop of standardize_all_years ending one year early
LastYearOneShort == 2025 - 2

FirstYear == 2014
LastYear == 2024
Years == FirstYear..LastYear

\* year in [2017, 2018]
MislabeledThousandsYears == {2017, 2018}

\* col matches '^Unnamed' / col.startswith('Change ')
IsUnnamed(c) == c \in {"Unnamed: 11"}
IsChange(c) == c \in {"Change 2022-2023"}

\* df.loc[:, ~df.columns.str.contains('^Unnamed')]
drop_unnamed(df) == KeepCols(df, LAMBDA c : ~IsUnnamed(c))

\* df.drop(columns=change_cols)
drop_change(df) == KeepCols(df, LAMBDA c : ~IsChange(c))

\* add_year stamping the identifier over a year column of the file
add_year_always(df, yr) == SetScalar(df, "year", Num(yr, 1))

\* if 'year' not in df.columns: df['year'] = year
add_year(df, yr) ==
    IF ~HasCol(df, "year") THEN SetScalar(df, "year", Num(yr, 1)) ELSE df

\* x / 1000 on a float cell (NaN stays NaN)
Div1000(c) == IF c.t = "num" THEN Num(c.n, c.d * 1000) ELSE c

\* correct_mislabeled with the division applied a second time
correct_mislabeled_twice(df, yr) ==
    IF yr \in MislabeledThousandsYears /\ HasCol(df, "value_thousands")
    THEN MapCol(MapCol(df, "value_thousands", Div1000), "value_thousands", Div1000)
    ELSE df

\* correct_mislabeled without the test of the year
correct_mislabeled_any_year(df, yr) ==
    IF HasCol(df, "value_thousands")
    THEN MapCol(df, "value_thousands", Div1000)
    ELSE df

\* if year in [2017, 2018] and 'value_thousands' in df.columns: divide
correct_mislabeled(df, yr) ==
    IF yr \in MislabeledThousandsYears /\ HasCol(df, "value_thousands")
    THEN MapCol(df, "value_thousands", Div1000)
    ELSE df

\* rename_value_pounds converting pounds to thousands as the label suggests
rename_value_pounds_converted(df) ==
    IF HasCol(df, "value_pounds")
    THEN KeepCols(SetCol(df, "value_thousands",
                         [r \in 1..Len(df.rows) |->
                             Div1000(Series(df, "value_pounds")[r])]),
                  LAMBDA c : c # "value_pounds")
    ELSE df

\* if 'value_pounds' in df.columns: copy to value_thousands, drop value_pounds
rename_value_pounds(df) ==
    IF HasCol(df, "value_pounds")
    THEN KeepCols(SetCol(df, "value_thousands", Series(df, "value_pounds")),
                  LAMBDA c : c # "value_pounds")
    ELSE df

\* df[col].apply(standardize_nationality) raises ValueError when the label is
\* carried by several columns and there is a row: DataFrame.apply hands the
\* function a whole column, whose pd.isna is not a truth value
apply_raises(df, col) == CountCol(df, col) > 1 /\ Len(df.rows) > 0

apply_nationality(df, col) ==
    IF HasCol(df, col) /\ ~apply_raises(df, col)
    THEN MapCol(df, col, standardize_nationality)
    ELSE df

\* add_missing filling the new column with 0 instead of None
RECURSIVE add_missing_zero(_, _)
add_missing_zero(df, names) ==
    IF names = <<>> THEN df
    ELSE add_missing_zero(IF HasCol(df, Head(names)) THEN df
                          ELSE SetScalar(df, Head(names), Num(0, 1)),
                          Tail(names))

\* for col in standard_columns: if col not in df.columns: df[col] = None
RECURSIVE add_missing(_, _)
add_missing(df, names) ==
    IF names = <<>> THEN df
    ELSE add_missing(IF HasCol(df, Head(names)) THEN df
                     ELSE SetScalar(df, Head(names), NullCell),
                     Tail(names))

EmptyFrame == [cols |-> <<>>, rows |-> <<>>]
Absent == [kind |-> "absent", cols |-> <<>>, rows |-> <<>>]
Unparsable == [kind |-> "unparsable", cols |-> <<>>, rows |-> <<>>]
NoDataSheet == [kind |-> "nodatasheet", cols |-> <<>>, rows |-> <<>>]
Csv(df) == [kind |-> "csv", cols |-> df.cols, rows |-> df.rows]
Frame(file) == [cols |-> file.cols, rows |-> file.rows]

Raised(e) == [status |-> e, df |-> EmptyFrame]
Returned(df) == [status |-> "ok", df |-> df]

\* canonicalize with the rename of value_pounds done before the division
canonicalize_rename_first(yr, raw) ==
    correct_mislabeled(
        rename_value_pounds(
            add_year(Rename(drop_change(drop_unnamed(raw)), COLUMN_MAPPINGS), yr)),
        yr)

\* canonicalize followed by a dropna(how='all') over the columns of the file
canonicalize_dropna(yr, raw) ==
    LET df == rename_value_pounds(
                correct_mislabeled(
                  add_year(Rename(drop_change(drop_unnamed(raw)), COLUMN_MAPPINGS), yr),
                  yr))
    IN  [cols |-> df.cols,
         rows |-> SelectSeq(df.rows,
                    LAMBDA row : \E i \in 1..Len(row) :
                                    df.cols[i] # "year" /\ row[i] # NullCell)]

\* the frame after renaming, year stamping and unit correction (lines 99-130)
canonicalize(yr, raw) ==
    rename_value_pounds(
        correct_mislabeled(
            add_year(Rename(drop_change(drop_unnamed(raw)), COLUMN_MAPPINGS), yr),
            yr))

\* load_and_standardize_year(year) with data/{year}.csv being `file`
load_and_standardize_year(yr, file) ==
    IF file.kind = "absent" THEN Raised("FileNotFoundError")
    ELSE IF file.kind = "unparsable" THEN Raised("ParserError")
    ELSE LET df == canonicalize(yr, Frame(file))
         IN  IF apply_raises(df, "port_nationality")
                \/ apply_raises(df, "vessel_nationality")
             THEN Raised("ValueError")
             ELSE Returned(
                    SelectCols(
                      add_missing(
                        apply_nationality(
                          apply_nationality(df, "port_nationality"),
                          "vessel_nationality"),
                        standard_columns),
                      standard_columns))

----------------------------------------------------------------------------
(* Source files given to load_and_standardize_year: the header holds up to *)
(* MaxCols of the labels below, in this order (read_csv gives every column *)
(* a distinct label), and up to MaxRows rows.                              *)

SourceColumns ==
    <<"Year", "Month Landed", "Month", "Port of Landing", "Port of landing",
      "Port NUTS 2 area", "Port Nationality", "Vessel Nationality",
      "Vessel nationality", "Length Group", "Gear category", "Species",
      "Species name", "Species code", "Species Group", "Species group",
      "Live weight (tonnes)", "Sum of Live weight (tonnes)",
      "Live Weight (tonnes)", "Landed weight (tonnes)",
      "Sum of Landed weight (tonnes)", "Landed Weight (tonnes)",
      "Value(£000s)", "Value (£000s)", "Sum of Value(£)",
      "Unnamed: 11", "Change 2022-2023", "Notes">>

ThousandsLabels == {"Value(£000s)", "Value (£000s)"}
PoundsLabel == "Sum of Value(£)"

UKScotland == Str(<<"UK", " ", "-", " ", "Scotland">>)

\* the cells a column of a source file may hold
CellsOf(c) ==
    CASE c \in ThousandsLabels \cup {PoundsLabel, "Value (£)"} ->
            {Num(50000, 1), NullCell}
      [] c = "Year" -> {Num(2016, 1), NullCell}
      [] c \in {"Month Landed", "Month"} -> {Num(3, 1), NullCell}
      [] c \in {"Port Nationality", "Vessel Nationality", "Vessel nationality"} ->
            {UKScotland, NullCell}
      [] c \in {"Live weight (tonnes)", "Sum of Live weight (tonnes)",
                "Live Weight (tonnes)", "Landed weight (tonnes)",
                "Sum of Landed weight (tonnes)", "Landed Weight (tonnes)",
                "Live Weight", "Landed Weight", "Change 2022-2023"} ->
            {Num(12, 1), NullCell}
      [] OTHER -> {Str(<<"x">>), NullCell}

\* strictly increasing sequences of k positions of a header of n labels
RECURSIVE Increasing(_, _)
Increasing(n, k) ==
    IF k = 0 THEN {<<>>}
    ELSE {Append(p[1], p[2]) :
            p \in {q \in Increasing(n, k - 1) \X (1..n) :
                     q[1] = <<>> \/ q[1][Len(q[1])] < q[2]}}

Headers(labels, most) ==
    {[i \in 1..Len(idx) |-> labels[idx[i]]] :
        idx \in UNION {Increasing(Len(labels), k) : k \in 1..most}}

RowsOf(cols) ==
    {row \in [1..Len(cols) -> UNION {CellsOf(cols[i]) : i \in 1..Len(cols)}] :
        \A i \in 1..Len(cols) : row[i] \in CellsOf(cols[i])}

Frames(labels, mostCols, mostRows) ==
    UNION {{[cols |-> cols, rows |-> rows] : rows \in SeqsUpTo(RowsOf(cols), mostRows)} :
             cols \in Headers(labels, mostCols)}

YearFiles ==
    {Absent, Unparsable} \cup {Csv(df) : df \in Frames(SourceColumns, MaxCols, MaxRows)}

Pending == [status |-> "pending", df |-> EmptyFrame]

\* the lines load_and_standardize_year prints, all of them under `if verbose`
prints(yr, file, vb) ==
    IF ~vb \/ file.kind = "absent" THEN {}
    ELSE IF file.kind = "unparsable" THEN {"Processing"}
    ELSE LET raw == drop_unnamed(Frame(file))
             renamed == add_year(Rename(drop_change(raw), COLUMN_MAPPINGS), yr)
             corrected == correct_mislabeled(renamed, yr)
         IN  {"Processing", "Loaded"}
             \cup (IF \E i \in 1..Len(raw.cols) : IsChange(raw.cols[i])
                   THEN {"Dropped 'Change' columns"} ELSE {})
             \cup (IF yr \in MislabeledThousandsYears /\ HasCol(renamed, "value_thousands")
                   THEN {"Corrected mislabeled values"} ELSE {})
             \cup (IF HasCol(corrected, "value_pounds")
                   THEN {"Renamed mislabeled value column"} ELSE {})
             \cup (IF load_and_standardize_year(yr, file).status = "ok"
                   THEN {"Standardized"} ELSE {})

YStandardize ==
    /\ ypc = "call"
    /\ yresult' = load_and_standardize_year(yyear, yfile)
    /\ yprinted' = prints(yyear, yfile, yverbose)
    /\ ypc' = "returned"
    /\ UNCHANGED <<yyear, yverbose, yfile, nvars, rvars, qvars>>

----------------------------------------------------------------------------
(* pandas: concat, drop_duplicates *)

HasDuplicateLabels(df) ==
    \E i, j \in 1..Len(df.cols) : i < j /\ df.cols[i] = df.cols[j]

\* the labels of the frames in order of first appearance
RECURSIVE UnionCols(_, _)
UnionCols(frames, acc) ==
    IF frames = <<>> THEN acc
    ELSE UnionCols(Tail(frames),
                   acc \o SelectSeq(Head(frames).cols,
                                    LAMBDA c : \A i \in 1..Len(acc) : acc[i] # c))

\* a frame reindexed to the labels cols, NaN where it has no such column
Reindex(df, cols) ==
    [r \in 1..Len(df.rows) |->
        [k \in 1..Len(cols) |->
            IF HasCol(df, cols[k]) THEN Series(df, cols[k])[r] ELSE NullCell]]

RECURSIVE ConcatRows(_, _)
ConcatRows(frames, cols) ==
    IF frames = <<>> THEN <<>>
    ELSE Reindex(Head(frames), cols) \o ConcatRows(Tail(frames), cols)

RECURSIVE PlainRows(_)
PlainRows(frames) ==
    IF frames = <<>> THEN <<>> ELSE Head(frames).rows \o PlainRows(Tail(frames))

\* pd.concat returning an empty table for an empty list
pd_concat_empty_ok(frames) ==
    IF frames = <<>> THEN Returned(EmptyFrame)
    ELSE Returned([cols |-> frames[1].cols, rows |-> PlainRows(frames)])

\* pd.concat keeping the rows of its first frame only
pd_concat_first(frames) ==
    IF frames = <<>> THEN Raised("ValueError")
    ELSE Returned(frames[1])

\* pd.concat(frames, ignore_index=True)
pd_concat(frames) ==
    IF frames = <<>> THEN Raised("ValueError")
    ELSE IF \A i \in 1..Len(frames) : frames[i].cols = frames[1].cols
    THEN Returned([cols |-> frames[1].cols, rows |-> PlainRows(frames)])
    ELSE IF \E i \in 1..Len(frames) : HasDuplicateLabels(frames[i])
    THEN Raised("InvalidIndexError")
    ELSE LET cols == UnionCols(frames, <<>>)
         IN  Returned([cols |-> cols, rows |-> ConcatRows(frames, cols)])

\* the rows that repeat no earlier row
RECURSIVE FirstOccurrences(_, _)
FirstOccurrences(rows, acc) ==
    IF rows = <<>> THEN acc
    ELSE FirstOccurrences(Tail(rows),
                          IF \E i \in 1..Len(acc) : acc[i] = Head(rows) THEN acc
                          ELSE Append(acc, Head(rows)))

\* df.drop_duplicates()
drop_duplicates(df) == [cols |-> df.cols, rows |-> FirstOccurrences(df.rows, <<>>)]

----------------------------------------------------------------------------
(* load_data.py: load_mmo_file, standardise_columns *)

\* the column_mapping dict of standardise_columns
column_mapping(c) ==
    CASE c = "Year" -> "year"
      [] c = "Month" -> "month"
      [] c = "Port of landing" -> "port"
      [] c = "Port Nationality" -> "port_nationality"
      [] c = "Vessel nationality" -> "vessel_nationality"
      [] c = "Length Group" -> "length_group"
      [] c = "Gear category" -> "gear_category"
      [] c = "Species code" -> "species_code"
      [] c = "Species name" -> "species_name"
      [] c = "Species group" -> "species_group"
      [] c = "Live Weight (tonnes)" -> "live_weight_tonnes"
      [] c = "Landed Weight (tonnes)" -> "landed_weight_tonnes"
      [] c = "Value (£000s)" -> "value_thousands"
      [] c = "Value (£)" -> "value_thousands"
      [] c = "Live Weight" -> "live_weight_tonnes"
      [] c = "Landed Weight" -> "landed_weight_tonnes"
      [] OTHER -> c

\* standardise_columns: the rename alone; missing columns are only printed
standardise_columns(df) == Rename(df, column_mapping)

\* load_mmo_file: None for a workbook without a 'Data' sheet or one that
\* raises while it is read, else the sheet
load_mmo_file(file) ==
    IF file.kind = "csv" THEN Returned(Frame(file)) ELSE Raised("None")

----------------------------------------------------------------------------
(* The store: the SQLite file as a reader sees it.  written_by is the run  *)
(* whose to_sql wrote the table (0: none); db0 is the store as the current *)
(* run found it.                                                           *)

NoTable == [exists |-> FALSE, cols |-> <<>>, rows |-> <<>>, indexes |-> {},
            written_by |-> 0]

\* the CREATE INDEX IF NOT EXISTS statements of standardize_all_years
StandardizeIndexes ==
    {<<"idx_year", <<"year">>>>, <<"idx_month", <<"month">>>>,
     <<"idx_port", <<"port">>>>,
     <<"idx_port_nationality", <<"port_nationality">>>>,
     <<"idx_vessel_nationality", <<"vessel_nationality">>>>,
     <<"idx_species_name", <<"species_name">>>>,
     <<"idx_species_code", <<"species_code">>>>,
     <<"idx_species_group", <<"species_group">>>>,
     <<"idx_gear_category", <<"gear_category">>>>,
     <<"idx_year_month", <<"year", "month">>>>}

\* the CREATE INDEX statements of create_database
LoadDataIndexes ==
    {<<"idx_port", <<"port">>>>, <<"idx_species", <<"species_name">>>>,
     <<"idx_year_month", <<"year", "month">>>>,
     <<"idx_port_nationality", <<"port_nationality">>>>,
     <<"idx_species_group", <<"species_group">>>>}

\* the columns the summary queries of create_database read
SummaryColumns == {"year", "port", "species_name", "value_thousands",
                   "live_weight_tonnes"}

\* CREATE INDEX succeeds when every indexed column is a column of the table
Indexable(ix, cols) ==
    \A k \in 1..Len(ix[2]) : \E i \in 1..Len(cols) : cols[i] = ix[2][k]

----------------------------------------------------------------------------
(* Source files read during a run *)

RunColumns == <<"Year", "Value(£000s)">>

StdFiles == {Csv(df) : df \in Frames(RunColumns, MaxRunCols, MaxRunRows)}

\* the workbooks of load_data: a 'Data' sheet with the columns the summary
\* needs, the value under either label, or a sheet with a value column only
SheetBase == <<"Year", "Port of landing", "Species name", "Live Weight (tonnes)">>

SheetHeaders ==
    {Append(SheetBase, "Value (£000s)"), Append(SheetBase, "Value (£)"),
     <<"Value (£)">>}

SheetCellsOf(c) ==
    CASE c \in {"Value (£000s)", "Value (£)"} -> {Num(50000, 1), NullCell}
      [] c = "Year" -> {Num(2016, 1)}
      [] c = "Live Weight (tonnes)" -> {Num(12, 1)}
      [] OTHER -> {Str(<<"x">>)}

SheetRows(cols) ==
    {row \in [1..Len(cols) -> UNION {SheetCellsOf(cols[i]) : i \in 1..Len(cols)}] :
        \A i \in 1..Len(cols) : row[i] \in SheetCellsOf(cols[i])}

LdFiles ==
    UNION {{Csv([cols |-> cols, rows |-> rows]) :
              rows \in SeqsUpTo(SheetRows(cols), MaxRunRows)} :
             cols \in SheetHeaders}

ValueLabels == ThousandsLabels \cup {PoundsLabel, "Value (£)"}

\* the unit the value figures of a source file are recorded in, as the two
\* programs document it: standardize_data.py reads pounds under a thousands
\* label in 2017 and 2018 and thousands everywhere else, 'Sum of Value(£)'
\* included; load_data.py reads pounds under 'Value (£)' and thousands under
\* 'Value (£000s)'
RecordedUnit(pipe, yr, file) ==
    IF pipe = "standardize"
    THEN IF yr \in MislabeledThousandsYears /\ ~HasCol(file, PoundsLabel)
         THEN "pounds" ELSE "thousands"
    ELSE IF HasCol(file, "Value (£)") THEN "pounds" ELSE "thousands"

----------------------------------------------------------------------------
(* standardize_data.py: standardize_all_years *)

\* to_sql with if_exists='append'
to_sql_append(store, df, run) ==
    [exists |-> TRUE, cols |-> df.cols,
     rows |-> IF store.exists /\ store.cols = df.cols THEN store.rows \o df.rows
              ELSE df.rows,
     indexes |-> store.indexes, written_by |-> run]

\* DataFrame.to_sql('landings', conn, if_exists='replace', index=False)
to_sql(store, df, run) ==
    [exists |-> TRUE, cols |-> df.cols, rows |-> df.rows, indexes |-> {},
     written_by |-> run]

\* conn.execute("DROP TABLE IF EXISTS landings")
drop_table(store) == NoTable

\* the "Skipping" line printed under `if verbose` like the progress lines
skip_warning_if_verbose(named, yr, vb) == IF vb THEN named \cup {yr} ELSE named

\* print(f"Skipping {year}: {e}"): the years named so far, and this one
skip_warning(named, yr, vb) == named \cup {yr}

Entry(yr, file, unit, out) == [year |-> yr, raw |-> Frame(file), unit |-> unit, out |-> out]

Startable == pc \in {"idle", "done", "failed"} /\ runs < MaxRuns

\* standardize_all_years(output_path, verbose) is called
RunStandardize ==
    /\ Startable
    /\ pipeline' = "standardize"
    /\ output_path' \in BOOLEAN
    /\ verbose' \in BOOLEAN
    /\ year' = FirstYear
    /\ all_data' = <<>>
    /\ loaded' = <<>>
    /\ combined' = EmptyFrame
    /\ runs' = runs + 1
    /\ pc' = "loop"
    /\ db0' = db
    /\ warned' = {} /\ raised' = "none" /\ concats' = 0
    /\ UNCHANGED <<files_left, db, loads, nvars, yvars, qvars>>

\* one iteration of the loop: data/{year}.csv is read and standardized
YearLoaded ==
    /\ pc = "loop" /\ year <= LastYear /\ loads < MaxLoads
    /\ \E file \in StdFiles :
          LET res == load_and_standardize_year(year, file) IN
          /\ res.status = "ok"
          /\ all_data' = Append(all_data, res.df)
          /\ loaded' = Append(loaded,
                Entry(year, file, RecordedUnit(pipeline, year, file), res.df))
    /\ year' = year + 1
    /\ loads' = loads + 1
    /\ UNCHANGED <<pc, pipeline, output_path, verbose, files_left, combined, db,
                   db0, runs, warned, raised, concats, nvars, yvars, qvars>>

\* YearSkipped with the handler starting the list of tables afresh
YearSkippedForgets ==
    /\ pc = "loop" /\ year <= LastYear
    /\ load_and_standardize_year(year, Absent).status = "FileNotFoundError"
    /\ warned' = skip_warning(warned, year, verbose)
    /\ year' = year + 1
    /\ all_data' = <<>>
    /\ UNCHANGED <<pc, pipeline, output_path, verbose, files_left, loaded,
                   combined, db, db0, runs, loads, raised, concats, nvars, yvars, qvars>>

\* one iteration of the loop: FileNotFoundError is caught, the year skipped
YearSkipped ==
    /\ pc = "loop" /\ year <= LastYear
    /\ load_and_standardize_year(year, Absent).status = "FileNotFoundError"
    /\ warned' = skip_warning(warned, year, verbose)
    /\ year' = year + 1
    /\ UNCHANGED <<pc, pipeline, output_path, verbose, files_left, all_data,
                   loaded, combined, db, db0, runs, loads, raised, concats,
                   nvars, yvars, qvars>>

\* one iteration of the loop: any other exception leaves standardize_all_years
YearRaised ==
    /\ pc = "loop" /\ year <= LastYear
    /\ \E file \in StdFiles \cup {Unparsable} :
          LET res == load_and_standardize_year(year, file) IN
          /\ res.status \notin {"ok", "FileNotFoundError"}
          /\ raised' = res.status
    /\ pc' = "failed"
    /\ UNCHANGED <<pipeline, output_path, verbose, year, files_left, all_data,
                   loaded, combined, db, db0, runs, loads, warned, concats,
                   nvars, yvars, qvars>>

\* combined = pd.concat(all_data, ignore_index=True); return if no output_path
Concat ==
    /\ pc = "loop" /\ year > LastYear
    /\ LET c == pd_concat(all_data) IN
          IF c.status # "ok"
          THEN pc' = "failed" /\ raised' = c.status /\ UNCHANGED combined
          ELSE /\ combined' = c.df
               /\ pc' = IF output_path THEN "drop" ELSE "done"
               /\ UNCHANGED raised
    /\ concats' = concats + 1
    /\ UNCHANGED <<pipeline, output_path, verbose, year, files_left, all_data,
                   loaded, db, db0, runs, loads, warned, nvars, yvars, qvars>>

\* sqlite3.connect; DROP TABLE IF EXISTS landings
DropTable ==
    /\ pc = "drop"
    /\ db' = drop_table(db)
    /\ pc' = "write"
    /\ UNCHANGED <<pipeline, output_path, verbose, year, files_left, all_data,
                   loaded, combined, db0, runs, loads, warned, raised, concats,
                   nvars, yvars, qvars>>

\* combined.to_sql(...): CREATE TABLE refuses a repeated column name
ToSql ==
    /\ pc = "write"
    /\ IF HasDuplicateLabels(combined)
       THEN pc' = "failed" /\ db' = drop_table(db) /\ raised' = "OperationalError"
       ELSE pc' = "index" /\ db' = to_sql(db, combined, runs) /\ UNCHANGED raised
    /\ UNCHANGED <<pipeline, output_path, verbose, year, files_left, all_data,
                   loaded, combined, db0, runs, loads, warned, concats,
                   nvars, yvars, qvars>>

\* the index statements, conn.commit(), and for standardize_all_years
\* conn.close() and the return.  create_database swallows the
\* sqlite3.OperationalError of an index on a column the table lacks.
CreateIndexes ==
    /\ pc = "index"
    /\ IF pipeline = "standardize"
       THEN IF \A ix \in StandardizeIndexes : Indexable(ix, db.cols)
            THEN /\ db' = [db EXCEPT !.indexes = StandardizeIndexes]
                 /\ pc' = "done"
            ELSE /\ db' = db
                 /\ pc' = "failed"
       ELSE /\ db' = [db EXCEPT !.indexes =
                         {ix \in LoadDataIndexes : Indexable(ix, db.cols)}]
            /\ pc' = "summary"
    /\ raised' = IF pc' = "failed" THEN "OperationalError" ELSE raised
    /\ UNCHANGED <<pipeline, output_path, verbose, year, files_left, all_data,
                   loaded, combined, db0, runs, loads, warned, concats,
                   nvars, yvars, qvars>>

\* the database cannot be written (locked, full): sqlite3.OperationalError,
\* which create_database swallows around its index statements
PersistFails ==
    /\ pc \in {"drop", "write"} \/ (pc = "index" /\ pipeline = "standardize")
    /\ pc' = "failed"
    /\ raised' = "OperationalError"
    /\ UNCHANGED <<pipeline, output_path, verbose, year, files_left, all_data,
                   loaded, combined, db, db0, runs, loads, warned, concats,
                   nvars, yvars, qvars>>

----------------------------------------------------------------------------
(* load_data.py: main, create_database *)

\* main finds the spreadsheet files of the data folder; none: sys.exit(1)
RunLoadData ==
    /\ Startable
    /\ pipeline' = "load_data"
    /\ output_path' = TRUE
    /\ files_left' \in 0..MaxFolder
    /\ all_data' = <<>>
    /\ loaded' = <<>>
    /\ combined' = EmptyFrame
    /\ runs' = runs + 1
    /\ pc' = IF files_left' = 0 THEN "failed" ELSE "ld_loop"
    /\ db0' = db
    /\ verbose' = TRUE /\ warned' = {} /\ concats' = 0
    /\ raised' = IF files_left' = 0 THEN "SystemExit" ELSE "none"
    /\ UNCHANGED <<year, db, loads, nvars, yvars, qvars>>

\* load_mmo_file returns the 'Data' sheet; standardise_columns; append
FileLoaded ==
    /\ pc = "ld_loop" /\ files_left > 0 /\ loads < MaxLoads
    /\ \E file \in LdFiles :
          LET res == load_mmo_file(file)
              df == standardise_columns(res.df)
          IN  /\ res.status = "ok"
              /\ all_data' = Append(all_data, df)
              /\ loaded' = Append(loaded,
                    Entry(0, file, RecordedUnit(pipeline, 0, file), df))
    /\ files_left' = files_left - 1
    /\ loads' = loads + 1
    /\ UNCHANGED <<pc, pipeline, output_path, verbose, year, combined, db, db0,
                   runs, warned, raised, concats, nvars, yvars, qvars>>

\* load_mmo_file returns None: the file is left out
FileNone ==
    /\ pc = "ld_loop" /\ files_left > 0
    /\ \E file \in {NoDataSheet, Unparsable} : load_mmo_file(file).status # "ok"
    /\ files_left' = files_left - 1
    /\ UNCHANGED <<pc, pipeline, output_path, verbose, year, all_data, loaded,
                   combined, db, db0, runs, loads, warned, raised, concats,
                   nvars, yvars, qvars>>

\* create_database up to sqlite3.connect: return on an empty list, else
\* concat and drop_duplicates
CreateDatabase ==
    /\ pc = "ld_loop" /\ files_left = 0
    /\ IF all_data = <<>>
       THEN pc' = "done" /\ UNCHANGED <<combined, raised, concats>>
       ELSE LET c == pd_concat(all_data) IN
            /\ concats' = concats + 1
            /\ IF c.status # "ok"
               THEN pc' = "failed" /\ raised' = c.status /\ UNCHANGED combined
               ELSE /\ pc' = "write" /\ combined' = drop_duplicates(c.df)
                    /\ UNCHANGED raised
    /\ UNCHANGED <<pipeline, output_path, verbose, year, files_left, all_data,
                   loaded, db, db0, runs, loads, warned, nvars, yvars, qvars>>

\* the summary queries after the commit: a query on a column the table
\* lacks raises sqlite3.OperationalError
Summary ==
    /\ pc = "summary"
    /\ pc' = IF \A c \in SummaryColumns : HasCol(db, c) THEN "done" ELSE "failed"
    /\ raised' = IF pc' = "failed" THEN "OperationalError" ELSE raised
    /\ UNCHANGED <<pipeline, output_path, verbose, year, files_left, all_data,
                   loaded, combined, db, db0, runs, loads, warned, concats,
                   nvars, yvars, qvars>>

----------------------------------------------------------------------------
(* MMOQueryEngine.ask (query_engine.py) *)

\* A text is a sequence of symbols; the tags '<sql>' and '</sql>' are
\* symbols of their own, and no other symbols make up a tag.
OpenTag == "<sql>"
CloseTag == "</sql>"

\* `sub in text` and text.index(sub) for a symbol
contains(text, sub) == \E i \in 1..Len(text) : text[i] = sub
index(text, sub) ==
    CHOOSE i \in 1..Len(text) : text[i] = sub /\ \A j \in 1..(i - 1) : text[j] # sub

\* text[start:end], start and end counted from 0
slice(text, start, end) ==
    IF end <= start THEN <<>> ELSE SubSeq(text, start + 1, end)

\* bool(x) of an Optional[str]
truthy(x) == x # NullCell /\ x.s # <<>>

\* _get_sql_from_response: the text between the first '<sql>' and the
\* first '</sql>', stripped; None when either tag is missing
get_sql_from_response(response_text) ==
    IF ~contains(response_text, OpenTag) \/ ~contains(response_text, CloseTag)
    THEN NullCell
    ELSE LET start == index(response_text, OpenTag)
             end == index(response_text, CloseTag) - 1
         IN  Str(strip(slice(response_text, start, end)))

\* llm_response.split('<sql>')[0]
before_open_tag(text) ==
    IF contains(text, OpenTag) THEN slice(text, 0, index(text, OpenTag) - 1)
    ELSE text

\* explanation = llm_response.split('<sql>')[0].strip() if sql else llm_response
explanation_of(text, s) ==
    IF truthy(s) THEN Str(strip(before_open_tag(text))) ELSE Str(text)

\* the responses of the model
ResponseSymbols == {OpenTag, CloseTag, " ", "SELECT 1", "Sure."}
Responses == UNION {[1..n -> ResponseSymbols] : n \in 0..MaxResponseLen}

Questions == {Str(<<"How much cod was landed?">>)}

\* the rows a query returns: rows of one value and rows of four
NarrowRow == <<Num(1, 1)>>
WideRow == <<Num(1, 1), Num(2, 1), Num(3, 1), Num(4, 1)>>
ResultSets == UNION {[1..n -> {NarrowRow, WideRow}] : n \in 0..MaxResultRows}

\* str(e) of the exception of a query: the message of sqlite3, or the
\* empty string of an exception raised without one (MemoryError in
\* fetchall)
ExceptionTexts == {<<"no such table: landings">>, <<>>}

\* _run_query: rows and None, or no rows and the text of the exception
run_query_returned(rows) == [results |-> rows, error |-> NullCell]
run_query_raised(text) == [results |-> <<>>, error |-> Str(text)]

\* _summarise_results answers by itself for no rows and for one row of at
\* most three values; otherwise it asks the model
NeedsModel(rows) == rows # <<>> /\ ~(Len(rows) = 1 /\ Len(rows[1]) <= 3)
summarise_results(q, rows, text) ==
    IF rows = <<>> THEN Str(<<"No results found.">>)
    ELSE IF Len(rows) = 1 /\ Len(rows[1]) <= 3
    THEN Str([k \in 1..Len(rows[1]) |-> "key: value"])
    ELSE Str(text)
SummaryTexts == {<<"Two rows were found.">>}

NoResult == [question |-> NullCell, explanation |-> NullCell, sql |-> NullCell,
             results |-> <<>>, error |-> NullCell, summary |-> NullCell]

\* Step 1 of ask: the model answers, the SQL is extracted; without SQL ask
\* returns
GetSql ==
    /\ ask_pc = "create"
    /\ \E text \in Responses :
          LET s == get_sql_from_response(text)
              explanation == explanation_of(text, s)
          IN  /\ llm_response' = text
              /\ sql' = s
              /\ IF ~truthy(s)
                 THEN /\ ask_pc' = "returned"
                      /\ result' = [question |-> question,
                                    explanation |-> explanation,
                                    sql |-> NullCell, results |-> <<>>,
                                    error |-> Str(<<"Could not generate SQL query">>),
                                    summary |-> explanation]
                 ELSE ask_pc' = "run" /\ UNCHANGED result
    /\ UNCHANGED <<question, results, error, executed, summarised, nvars,
                   yvars, rvars>>

\* the first messages.create of ask raises: ask raises
CreateRaises ==
    /\ ask_pc = "create"
    /\ ask_pc' = "raised"
    /\ UNCHANGED <<question, llm_response, sql, results, error, executed,
                   summarised, result, nvars, yvars, rvars>>

\* Step 2 of ask: the query runs; with an error ask returns
RunQuery ==
    /\ ask_pc = "run"
    /\ \E out \in {run_query_returned(rows) : rows \in ResultSets}
                   \cup {run_query_raised(text) : text \in ExceptionTexts} :
          /\ results' = out.results
          /\ error' = out.error
          /\ executed' = IF out.error = NullCell THEN "returned" ELSE "raised"
          /\ IF truthy(out.error)
             THEN /\ ask_pc' = "returned"
                  /\ result' = [question |-> question,
                                explanation |-> explanation_of(llm_response, sql),
                                sql |-> sql, results |-> <<>>,
                                error |-> Str(<<"SQL error: ">> \o out.error.s),
                                summary |-> Str(<<"Query failed: ">> \o out.error.s)]
             ELSE ask_pc' = "summarise" /\ UNCHANGED result
    /\ UNCHANGED <<question, llm_response, sql, summarised, nvars, yvars, rvars>>

\* Step 3 of ask: the results are summarised and ask returns
Summarise ==
    /\ ask_pc = "summarise"
    /\ \E text \in SummaryTexts :
          result' = [question |-> question,
                     explanation |-> explanation_of(llm_response, sql),
                     sql |-> sql, results |-> results, error |-> NullCell,
                     summary |-> summarise_results(question, results, text)]
    /\ summarised' = TRUE
    /\ ask_pc' = "returned"
    /\ UNCHANGED <<question, llm_response, sql, results, error, executed,
                   nvars, yvars, rvars>>

\* the messages.create of _summarise_results raises: ask raises
SummariseRaises ==
    /\ ask_pc = "summarise" /\ NeedsModel(results)
    /\ summarised' = TRUE
    /\ ask_pc' = "raised"
    /\ UNCHANGED <<question, llm_response, sql, results, error, executed,
                   result, nvars, yvars, rvars>>

----------------------------------------------------------------------------
(* Specifications *)

NatOff == npc = "off" /\ nvalue = NullCell /\ nonce = NullCell /\ ntwice = NullCell
YearOff ==
    /\ ypc = "off" /\ yyear = FirstYear /\ yverbose = FALSE /\ yfile = Absent
    /\ yresult = Pending /\ yprinted = {}
RunOff ==
    /\ pc = "off" /\ pipeline = "none" /\ output_path = FALSE
    /\ year = FirstYear /\ files_left = 0 /\ all_data = <<>> /\ loaded = <<>>
    /\ combined = EmptyFrame /\ db = NoTable /\ db0 = NoTable
    /\ runs = 0 /\ loads = 0
    /\ verbose = FALSE /\ warned = {} /\ raised = "none" /\ concats = 0

AskOff ==
    /\ ask_pc = "off" /\ question = NullCell /\ llm_response = <<>>
    /\ sql = NullCell /\ results = <<>> /\ error = NullCell
    /\ executed = "no" /\ summarised = FALSE /\ result = NoResult

\* runs of the two pipelines against one store, which starts without a table
Init ==
    /\ NatOff /\ YearOff /\ AskOff
    /\ pc = "idle" /\ pipeline = "none" /\ output_path = FALSE
    /\ year = FirstYear /\ files_left = 0 /\ all_data = <<>> /\ loaded = <<>>
    /\ combined = EmptyFrame /\ db = NoTable /\ db0 = NoTable
    /\ runs = 0 /\ loads = 0
    /\ verbose = FALSE /\ warned = {} /\ raised = "none" /\ concats = 0

Next ==
    \/ RunStandardize \/ YearLoaded \/ YearSkipped \/ YearRaised \/ Concat
    \/ DropTable \/ ToSql \/ CreateIndexes \/ PersistFails
    \/ RunLoadData \/ FileLoaded \/ FileNone \/ CreateDatabase \/ Summary

Spec == Init /\ [][Next]_vars

\* one call of load_and_standardize_year on every year and source file
InitYear ==
    /\ NatOff /\ RunOff /\ AskOff
    /\ ypc = "call" /\ yyear \in Years /\ yverbose \in BOOLEAN
    /\ yfile \in YearFiles /\ yresult = Pending /\ yprinted = {}

NextYear == YStandardize

SpecYear == InitYear /\ [][NextYear]_vars

\* standardize_nationality on every value, and again on its result
InitNat ==
    /\ YearOff /\ RunOff /\ AskOff
    /\ npc = "input" /\ nvalue \in NatInputs /\ nonce = NullCell /\ ntwice = NullCell

NextNat == NatOnce \/ NatTwice

SpecNat == InitNat /\ [][NextNat]_vars

\* one call of ask on every response of the model
InitAsk ==
    /\ NatOff /\ YearOff /\ RunOff
    /\ ask_pc = "create" /\ question \in Questions /\ llm_response = <<>>
    /\ sql = NullCell /\ results = <<>> /\ error = NullCell
    /\ executed = "no" /\ summarised = FALSE /\ result = NoResult

NextAsk == GetSql \/ CreateRaises \/ RunQuery \/ Summarise \/ SummariseRaises

SpecAsk == InitAsk /\ [][NextAsk]_vars

----------------------------------------------------------------------------
(* Properties of load_and_standardize_year (SpecYear) *)

YReturned == ypc = "returned" /\ yresult.status = "ok"

HasLabel(file, labels) == \E i \in 1..Len(file.cols) : file.cols[i] \in labels

\* the thousands-labelled columns of the source file, in file order
RawThousands == KeepCols(Frame(yfile), LAMBDA c : c \in ThousandsLabels)

\* the 'Sum of Value(£)' column of the source file
RawPounds == KeepCols(Frame(yfile), LAMBDA c : c = PoundsLabel)

\* the value_thousands columns of the returned table
OutValues == KeepCols(yresult.df, LAMBDA c : c = "value_thousands")

\* o = x / q with NaN for NaN
IsQuotient(o, x, q) ==
    \/ x.t = "null" /\ o.t = "null"
    \/ x.t = "num" /\ o.t = "num" /\ o.n * q * x.d = x.n * o.d

SameShape(a, b) == Len(a.cols) = Len(b.cols) /\ Len(a.rows) = Len(b.rows)

C5_ExactSchema == YReturned => yresult.df.cols = standard_columns

\* the canonical field a source label is a spelling of
SpellingOf(c) == IF c = PoundsLabel THEN "value_thousands" ELSE COLUMN_MAPPINGS(c)

NoSpelling(file, field) ==
    \A i \in 1..Len(file.cols) : SpellingOf(file.cols[i]) # field

\* the field is a column of the table and null in every row
PresentAndNull(df, field) ==
    /\ HasCol(df, field)
    /\ \A i \in 1..Len(df.cols), r \in 1..Len(df.rows) :
          df.cols[i] = field => df.rows[r][i] = NullCell

\* C6 as stated: every canonical field the file has no spelling of is a
\* column of the output and null in every row.
C6_AbsentFieldNull ==
    YReturned => \A k \in 1..Len(standard_columns) :
                    NoSpelling(yfile, standard_columns[k])
                        => PresentAndNull(yresult.df, standard_columns[k])

\* C6 amended: every canonical field other than year that the file has no
\* spelling of is a column of the output and null in every row (year is
\* stamped from the year identifier instead).
C6_AbsentFieldNullExceptYear ==
    YReturned => \A k \in 1..Len(standard_columns) :
                    (standard_columns[k] # "year"
                       /\ NoSpelling(yfile, standard_columns[k]))
                        => PresentAndNull(yresult.df, standard_columns[k])

\* a 2014 file with a species column and one row: gear_category and
\* species_code are columns of the output, null in that row
C6_Witness ==
    /\ YReturned /\ yyear = 2014
    /\ yfile.cols = <<"Species">> /\ Len(yfile.rows) = 1
    /\ PresentAndNull(yresult.df, "gear_category")
    /\ PresentAndNull(yresult.df, "species_code")
    /\ Len(yresult.df.rows) = 1

----------------------------------------------------------------------------
(* Properties of standardize_nationality (SpecNat) *)

\* C7: for every non-null input the output of standardize_nationality does
\* not start with "UK - ".
C7_NoPrefixLeft ==
    (npc \in {"once", "twice"} /\ ~pd_isna(nvalue))
        => ~startswith(nonce.s, UK_PREFIX)

\* C8: standardize_nationality(standardize_nationality(v)) =
\* standardize_nationality(v) for every input v.
C8_Idempotent == npc = "twice" => ntwice = nonce

----------------------------------------------------------------------------
(* Properties of the runs against the store (Spec) *)

\* o is the amount x, recorded in unit, expressed in thousands of pounds
InThousands(o, x, unit) ==
    /\ x.t = "num" /\ o.t = "num"
    /\ IF unit = "pounds" THEN o.n * 1000 * x.d = x.n * o.d
       ELSE o.n * x.d = x.n * o.d

\* every value_thousands figure of the table made from a source file is a
\* value figure of the same row of the file, in thousands of pounds
TableInThousands(e) ==
    \A r \in 1..Len(e.out.rows), i \in 1..Len(e.out.cols) :
        (e.out.cols[i] = "value_thousands" /\ e.out.rows[r][i].t = "num")
            => \E j \in 1..Len(e.raw.cols) :
                  /\ e.raw.cols[j] \in ValueLabels
                  /\ InThousands(e.out.rows[r][i], e.raw.rows[r][j], e.unit)

Persisted == pc = "done" /\ db.exists /\ db.written_by = runs

\* C4: after a run of either pipeline has written the relation, every
\* value_thousands it holds is in thousands of pounds, whatever unit the
\* source file recorded its values in and whatever label its column had.
C4_ValueInThousands ==
    Persisted => \A k \in 1..Len(loaded) : TableInThousands(loaded[k])

\* C9: the stored relation never holds two rows equal in every field.
C9_NoDuplicateRows ==
    db.exists => \A i, j \in 1..Len(db.rows) : i # j => db.rows[i] # db.rows[j]

\* the rows of the tables the current run made, over the store's columns
RowsOfRun ==
    UNION {{Reindex(loaded[k].out, db.cols)[r] : r \in 1..Len(loaded[k].out.rows)} :
             k \in 1..Len(loaded)}

StoredRows == {db.rows[i] : i \in 1..Len(db.rows)}

\* C10 as stated: after a run with an output path has returned, the relation
\* holds exactly the rows that run produced.
C10_FullReplace ==
    (pc = "done" /\ output_path) => StoredRows = RowsOfRun

\* C10 amended: after a run with an output path that loaded at least one
\* source file has returned, the relation was written by that run and holds
\* exactly the rows that run produced.
C10_FullReplaceWhenLoaded ==
    (pc = "done" /\ output_path /\ loaded # <<>>)
        => /\ db.exists /\ db.written_by = runs
           /\ StoredRows = RowsOfRun

\* a second run has replaced the rows the first run stored by other rows
C10_Witness ==
    /\ pc = "done" /\ output_path /\ loaded # <<>> /\ runs = 2
    /\ db0.exists /\ db0.rows # <<>>
    /\ db.written_by = 2
    /\ \E i \in 1..Len(db0.rows) : db0.rows[i] \notin StoredRows

----------------------------------------------------------------------------
(* Further properties of standardize_nationality (SpecNat) *)

\* the alias table, the removal of one leading "UK - ", and the string
\* between its first and its last symbol that is not a space
Alias(x) ==
    IF x \in {<<"Faeroe Islands">>, <<"FRO">>} THEN <<"Faroe Islands">> ELSE x
WithoutPrefix(x) ==
    IF Len(x) >= 4 /\ SubSeq(x, 1, 4) = <<"UK", " ", "-", " ">>
    THEN SubSeq(x, 5, Len(x)) ELSE x
Trimmed(x) ==
    LET solid == {i \in 1..Len(x) : x[i] # " "}
    IN  IF solid = {} THEN <<>>
        ELSE SubSeq(x, CHOOSE i \in solid : \A j \in solid : i <= j,
                       CHOOSE i \in solid : \A j \in solid : j <= i)

\* C23 as stated: for a non-null input the result is the alias of the input
\* without its leading "UK - ", and null gives null.
C23_AliasOfStripped ==
    npc \in {"once", "twice"} =>
        nonce = IF nvalue = NullCell THEN NullCell
                ELSE Str(Alias(WithoutPrefix(nvalue.s)))

\* C23 amended: the input is first trimmed of the spaces around it; the
\* result is the alias of the trimmed input without its leading "UK - ".
C23_AliasOfStrippedTrimmed ==
    npc \in {"once", "twice"} =>
        nonce = IF nvalue = NullCell THEN NullCell
                ELSE Str(Alias(WithoutPrefix(Trimmed(nvalue.s))))

\* "UK - FRO" has become "Faroe Islands"
C23_Witness ==
    /\ npc = "once" /\ nvalue = Str(<<"UK", " ", "-", " ", "FRO">>)
    /\ nonce = Str(<<"Faroe Islands">>)

----------------------------------------------------------------------------
(* Properties of the persist step and of the year loop (Spec) *)

SameTable(a, b) == a.exists = b.exists /\ a.cols = b.cols /\ a.rows = b.rows

\* the table is the whole dataset of the current run
WholeNew == db.exists /\ db.written_by = runs /\ db.cols = combined.cols
            /\ db.rows = combined.rows

\* C11: the replace is atomic for a reader.  Once a dataset is stored, a
\* reader sees at every moment either that whole dataset or the whole
\* dataset of the current run, never an absent or partial table, and a run
\* that has failed leaves the dataset it found.
C11_AtomicReplace ==
    db0.exists =>
        /\ SameTable(db, db0) \/ WholeNew
        /\ pc = "failed" => SameTable(db, db0)

\* the years whose file was read in the current run, and their tables
LoadedYears == {loaded[i].year : i \in 1..Len(loaded)}
Outs == [i \in 1..Len(loaded) |-> loaded[i].out]

\* the loop is over and pd.concat has returned the aggregated table
Aggregated ==
    /\ pipeline = "standardize" /\ concats = 1
    /\ raised \notin {"ValueError", "InvalidIndexError"}

\* C12: a year whose file is absent is skipped and changes nothing else.
\* The aggregated table holds, in year order, exactly the rows that
\* load_and_standardize_year gives for each file that is present, each
\* computed from that file alone; no row stands for an absent year.
C12_MissingYearSkipped ==
    Aggregated =>
        /\ combined.rows = PlainRows(Outs)
        /\ \A i \in 1..Len(loaded) :
              /\ loaded[i].out =
                    load_and_standardize_year(loaded[i].year, Csv(loaded[i].raw)).df
              /\ \A j \in 1..Len(loaded) : i < j => loaded[i].year < loaded[j].year

\* two files with a row each were read and the file of a year between them
\* was absent
C12_Witness ==
    /\ Aggregated /\ pc = "done"
    /\ \E i, j \in 1..Len(loaded) :
          /\ loaded[i].year + 1 < loaded[j].year
          /\ loaded[i].year + 1 \notin LoadedYears
          /\ Len(loaded[i].out.rows) = 1 /\ Len(loaded[j].out.rows) = 1
    /\ Len(combined.rows) = 2

\* C13: a source file that exists but cannot be parsed, or that lacks the
\* 'Data' sheet, only costs its own year: no run of either program is ended
\* by the error of reading such a file.
C13_UnparsableSkipped == pc = "failed" => raised # "ParserError"

\* C14: per-year errors never abort the run.  A run of
\* standardize_all_years fails only once the loop over the years is
\* finished, that is in the final aggregation and persist step.
C14_FailsOnlyInFinalStep ==
    pc = "failed" /\ pipeline = "standardize" => year > LastYear /\ concats = 1

----------------------------------------------------------------------------
(* Further properties of load_and_standardize_year (SpecYear) *)

\* C15: year stamping.  When the file has no 'Year' column every row of the
\* output has the year identifier of the call as its year; when it has one,
\* the year column of the output is the file's own column, cell for cell,
\* whatever the identifier.
C15_YearStamping ==
    YReturned =>
        LET raw == Frame(yfile)
            out == yresult.df
        IN  /\ CountCol(out, "year") = 1
            /\ Len(out.rows) = Len(raw.rows)
            /\ \A r \in 1..Len(raw.rows) :
                  Series(out, "year")[r] =
                      IF HasCol(raw, "Year") THEN Series(raw, "Year")[r]
                      ELSE Num(yyear, 1)

\* a file whose 'Year' column names another year than the identifier
C15_Witness ==
    /\ YReturned /\ HasCol(Frame(yfile), "Year") /\ Len(yfile.rows) = 1
    /\ Series(Frame(yfile), "Year")[1] = Num(2016, 1) /\ yyear = 2019
    /\ Series(yresult.df, "year")[1] = Num(2016, 1)

\* the value and weight fields of a table
RequiredMeasures == {"value_thousands", "live_weight_tonnes", "landed_weight_tonnes"}

\* the message that names columns a file lacks (standardise_columns prints it)
MissingColumnsWarning == "Warning: Missing columns"

\* C20: a missing value or weight field is not fatal and is reported.  When
\* the file has no column for a value or weight field, the call returns, the
\* field is a column of the output and null in every row, and a warning of
\* the missing columns is among the lines the call has printed.
C20_FieldMissingReported ==
    (ypc = "returned" /\ yfile.kind = "csv"
        /\ \E f \in RequiredMeasures : NoSpelling(yfile, f)) =>
        /\ yresult.status = "ok"
        /\ \A f \in RequiredMeasures :
              NoSpelling(yfile, f) => PresentAndNull(yresult.df, f)
        /\ MissingColumnsWarning \in yprinted

\* the unit steps the call took on the file: the division of lines 118-119
\* and the rename of lines 125-128, each named by the line it prints
UnitSteps == {"Corrected mislabeled values", "Renamed mislabeled value column"}
AppliedPolicy == prints(yyear, yfile, TRUE) \cap UnitSteps

\* the policy the table of flagged years gives a year
PolicyOfYear(yr) ==
    IF yr \in {2017, 2018} THEN {"Corrected mislabeled values"}
    ELSE IF yr \in {2019, 2020} THEN {"Renamed mislabeled value column"}
    ELSE {}

\* C21: the unit policy is chosen by the year identifier alone.  Whatever
\* value column a file has, the unit steps taken on it are those of its
\* year: the division for 2017 and 2018, the rename without arithmetic for
\* 2019 and 2020 and for no other year, and nothing for the other years.
C21_PolicyByYearAlone ==
    (YReturned /\ HasLabel(yfile, ThousandsLabels \cup {PoundsLabel})) =>
        AppliedPolicy = PolicyOfYear(yyear)

\* two columns of the file, the second later than the first, that the
\* mapping table gives the same canonical field
Collide(file, i, j) ==
    /\ i < j
    /\ ~IsUnnamed(file.cols[i]) /\ ~IsChange(file.cols[i])
    /\ COLUMN_MAPPINGS(file.cols[i]) \in {standard_columns[k] : k \in 1..Len(standard_columns)}
    /\ COLUMN_MAPPINGS(file.cols[i]) = COLUMN_MAPPINGS(file.cols[j])

\* C22: when a file has two source columns that map to one canonical field
\* the later one wins: the call completes, the output has the field exactly
\* once, and (for a field no later step rewrites) its values are those of
\* the later column.
C22_CollisionLastWins ==
    (ypc = "returned" /\ yfile.kind = "csv") =>
        \A i, j \in 1..Len(yfile.cols) :
            Collide(yfile, i, j) =>
                LET field == COLUMN_MAPPINGS(yfile.cols[j]) IN
                /\ yresult.status = "ok"
                /\ CountCol(yresult.df, field) = 1
                /\ field \in {"month", "port", "species_name", "species_group"} =>
                      \A r \in 1..Len(yfile.rows) :
                          Series(yresult.df, field)[r] = yfile.rows[r][j]

\* the labels the mapping table knows, and what the steps after the rename
\* do to a cell of a column with such a label
IsMapped(c) == COLUMN_MAPPINGS(c) # c
Transformed(c, yr, cell) ==
    IF c \in ThousandsLabels /\ yr \in MislabeledThousandsYears THEN Div1000(cell)
    ELSE IF SpellingOf(c) \in {"port_nationality", "vessel_nationality"}
    THEN standardize_nationality(cell)
    ELSE cell

\* column i of the file is found, row for row, in its canonical field
Carried(i) ==
    \E k \in 1..Len(yresult.df.cols) :
        /\ yresult.df.cols[k] = SpellingOf(yfile.cols[i])
        /\ \A r \in 1..Len(yfile.rows) :
              yresult.df.rows[r][k] = Transformed(yfile.cols[i], yyear, yfile.rows[r][i])

\* no column of the output has a label outside the canonical fields
OnlyCanonical ==
    \A k \in 1..Len(yresult.df.cols) :
        \E n \in 1..Len(standard_columns) : yresult.df.cols[k] = standard_columns[n]

\* an unmapped column raises nothing: a call on a parsed file raises only
\* when two nationality spellings of the file collide
RaisesOnlyOnCollision ==
    (ypc = "returned" /\ yfile.kind = "csv" /\ yresult.status # "ok") =>
        \E i, j \in 1..Len(yfile.cols) :
            /\ Collide(yfile, i, j)
            /\ COLUMN_MAPPINGS(yfile.cols[i]) \in {"port_nationality", "vessel_nationality"}

\* C24 as stated: the values of every column with a spelling of the mapping
\* table are found row for row in its canonical field of the output (after
\* unit correction or normalization), and no other column is in the output.
C24_Canonicalized ==
    /\ YReturned =>
          /\ \A i \in 1..Len(yfile.cols) : IsMapped(yfile.cols[i]) => Carried(i)
          /\ OnlyCanonical
    /\ RaisesOnlyOnCollision

\* C24 amended: the same, except that the values of a thousands-labelled
\* column are not in the output when the file also has 'Sum of Value(£)',
\* whose values take their place.
C24_CanonicalizedUnlessOverwritten ==
    /\ YReturned =>
          /\ \A i \in 1..Len(yfile.cols) :
                (IsMapped(yfile.cols[i])
                   /\ ~(yfile.cols[i] \in ThousandsLabels /\ HasCol(yfile, PoundsLabel)))
                    => Carried(i)
          /\ OnlyCanonical
    /\ RaisesOnlyOnCollision

\* a file with a nationality column, an unmapped column and two rows
C24_Witness ==
    /\ YReturned /\ yfile.cols = <<"Port Nationality", "Notes">>
    /\ Len(yfile.rows) = 2
    /\ yfile.rows[1][1] = UKScotland /\ yfile.rows[2][1] = NullCell
    /\ Series(yresult.df, "port_nationality")[1] = Str(<<"Scotland">>)
    /\ ~HasCol(yresult.df, "Notes")

\* the table the same file gives under the next year identifier
NextYearTable ==
    load_and_standardize_year(IF yyear = LastYear THEN FirstYear ELSE yyear + 1,
                              yfile).df

\* C26: standardization preserves rows.  The table a call returns has one
\* row for each data row of the file, in the order of the file: row r of
\* the output holds what row r of the file has in every mapped column (a
\* thousands-labelled column beside 'Sum of Value(£)' apart); and
\* concatenating two per-year tables gives as many rows as both have.
C26_RowsPreserved ==
    YReturned =>
        /\ Len(yresult.df.rows) = Len(yfile.rows)
        /\ \A r \in 1..Len(yfile.rows) : \A i \in 1..Len(yfile.cols) :
              (IsMapped(yfile.cols[i])
                 /\ ~(yfile.cols[i] \in ThousandsLabels /\ HasCol(yfile, PoundsLabel)))
              => \E k \in 1..Len(yresult.df.cols) :
                    /\ yresult.df.cols[k] = SpellingOf(yfile.cols[i])
                    /\ yresult.df.rows[r][k] =
                          Transformed(yfile.cols[i], yyear, yfile.rows[r][i])
        /\ LET c == pd_concat(<<yresult.df, NextYearTable>>)
           IN  /\ c.status = "ok"
               /\ Len(c.df.rows) = Len(yresult.df.rows) + Len(NextYearTable.rows)

\* a file of two different rows, the second without a value in any column
C26_Witness ==
    /\ YReturned /\ yfile.cols = <<"Species", "Live weight (tonnes)">>
    /\ Len(yfile.rows) = 2
    /\ yfile.rows[1] = <<Str(<<"x">>), Num(12, 1)>>
    /\ yfile.rows[2] = <<NullCell, NullCell>>
    /\ Len(yresult.df.rows) = 2
    /\ Series(yresult.df, "species_name") = <<Str(<<"x">>), NullCell>>

----------------------------------------------------------------------------
(* Further properties of the runs (Spec) *)

\* C16: every row of the aggregated dataset carries the year of the file it
\* was read from: its year is not null and equals the identifier the loop
\* had when it read the file, whatever the file holds.
C16_YearOfSourceFile ==
    Aggregated =>
        \A i \in 1..Len(loaded) : \A r \in 1..Len(loaded[i].out.rows) :
            Series(loaded[i].out, "year")[r] = Num(loaded[i].year, 1)

\* the column lists that have an index
IndexedColumns == {ix[2] : ix \in db.indexes}

\* C17: after every successful persist, by either program, 'landings' has an
\* index on each of year, month, port, port_nationality, vessel_nationality,
\* species_name, species_code, species_group, gear_category and on
\* (year, month), each once.
C17_IndexesAfterPersist ==
    Persisted =>
        /\ \A ix \in StandardizeIndexes : ix[2] \in IndexedColumns
        /\ \A a, b \in db.indexes : a[2] = b[2] => a = b

\* C18: in every run of standardize_all_years the final concatenation and
\* persist step happens exactly once: a run that has ended has come to it
\* once, no run comes to it twice, it begins only when every year of the
\* range has given its table or been skipped, and the store is not written
\* while the loop over the years is still going.
C18_PersistOnceAfterAllYears ==
    pipeline = "standardize" =>
        /\ concats <= 1
        /\ pc \in {"done", "failed"} => concats = 1
        /\ concats = 1 => year > LastYear
        /\ pc = "loop" => db = db0

\* the years the loop of the current run has been through without a table
SkippedYears == {y \in FirstYear..(year - 1) : y \notin LoadedYears}

\* C19: a run warns of exactly the skipped years.  At every moment of a run
\* of standardize_all_years the years named by its "Skipping" lines are the
\* years the loop found no file for, with verbose set or not, and no year
\* whose table was loaded is among them.
C19_WarningsNameSkippedYears ==
    pipeline = "standardize" =>
        /\ warned = SkippedYears
        /\ warned \cap LoadedYears = {}

\* a run without verbose that skipped a year and loaded another
C19_Witness ==
    /\ pipeline = "standardize" /\ ~verbose /\ pc = "done"
    /\ warned # {} /\ LoadedYears # {}
    /\ \E y \in warned : \E z \in LoadedYears : y < z

\* the orders in which n per-year stages can finish
Orders(n) ==
    {p \in [1..n -> 1..n] : \A i, j \in 1..n : p[i] = p[j] => i = j}

\* the tables of the files of the run, each computed afresh from its year
\* and file, handed to the concatenation in the order p
Reordered(p) ==
    [i \in 1..Len(loaded) |->
        load_and_standardize_year(loaded[p[i]].year, Csv(loaded[p[i]].raw)).df]

Occurrences(rows, r) == Cardinality({i \in 1..Len(rows) : rows[i] = r})
SameMultiset(a, b) ==
    /\ Len(a) = Len(b)
    /\ \A i \in 1..Len(a) : Occurrences(a, a[i]) = Occurrences(b, a[i])

C28_NothingLoadedNothingChanged ==
    (pipeline # "none" /\ loaded = <<>>) =>
        /\ pc \notin {"drop", "write", "index", "summary"}
        /\ db = db0

\* a run of standardize_all_years that found a stored, indexed table and
\* no file to load has ended in pd.concat
C28_Witness ==
    /\ pipeline = "standardize" /\ output_path /\ loaded = <<>>
    /\ warned = FirstYear..LastYear
    /\ pc = "failed" /\ raised = "ValueError"
    /\ db0.exists /\ db0.rows # <<>> /\ db0.indexes # {} /\ db = db0

\* the loop has been left without an exception of a per-year stage
LoopDone == pipeline = "standardize" /\ (concats = 1 \/ pc \in {"drop", "write", "index", "done"})

\* the step of a run of standardize_all_years that handles one year
HandlesCurrentYear ==
    /\ year' = year + 1
    /\ \/ /\ warned' = warned \cup {year} /\ loaded' = loaded
          /\ all_data' = all_data
       \/ /\ warned' = warned /\ Len(loaded') = Len(loaded) + 1
          /\ SubSeq(loaded', 1, Len(loaded)) = loaded
          /\ loaded'[Len(loaded')].year = year
          /\ all_data' = Append(all_data, loaded'[Len(loaded')].out)

\* C30: a run of standardize_all_years attempts each year of 2014..2024
\* once, in ascending order, and no other year.  The years handled so far
\* are exactly those from 2014 up to the current one, each either loaded or
\* skipped and never both; every step that loads or skips handles the
\* current year and moves to the next; the loop is left after 2024; and the
\* aggregated table holds the table of each loaded year once, in year
\* order, and nothing else.
C30_EachYearOnceAscending ==
    /\ [](pipeline = "standardize" =>
            /\ year \in 2014..2025
            /\ LoadedYears \cup warned = 2014..(year - 1)
            /\ LoadedYears \cap warned = {}
            /\ \A i, j \in 1..Len(loaded) : i < j => loaded[i].year < loaded[j].year
            /\ all_data = Outs
            /\ LoopDone => year = 2025
            /\ Aggregated => combined.rows = PlainRows(Outs))
    /\ [][(pipeline = "standardize" /\ runs' = runs
            /\ <<year, loaded, warned, all_data>>' # <<year, loaded, warned, all_data>>)
           => HandlesCurrentYear]_vars

\* the files of 2014 and 2024 were loaded, the nine years between them
\* skipped, and the two tables aggregated
C30_Witness ==
    /\ Aggregated /\ pc = "done"
    /\ LoadedYears = {2014, 2024} /\ warned = 2015..2023
    /\ Len(combined.rows) = 2

----------------------------------------------------------------------------
(* Properties of MMOQueryEngine.ask (SpecAsk) *)

\* the response holds text other than blanks between an opening tag and a
\* later closing tag
HasSqlBetweenTags(text) ==
    \E i, j \in 1..Len(text) :
        /\ i < j /\ text[i] = OpenTag /\ text[j] = CloseTag
        /\ \E k \in (i + 1)..(j - 1) : text[k] # " "

AskReturned == ask_pc = "returned"

\* a query is run only on such a response; on any other, ask returns
\* without a query, with sql = None and the error 'Could not generate SQL
\* query'
QueryOnlyOnSql ==
    /\ executed # "no" => HasSqlBetweenTags(llm_response)
    /\ (AskReturned /\ ~HasSqlBetweenTags(llm_response)) =>
          /\ executed = "no"
          /\ result.sql = NullCell
          /\ result.error = Str(<<"Could not generate SQL query">>)

\* a result with an error has no rows
ErrorImpliesNoResults ==
    (AskReturned /\ result.error # NullCell) => result.results = <<>>

\* _summarise_results is called only after a query that returned its rows
SummaryOnlyAfterSuccess == summarised => executed = "returned"

\* C29: ask runs a query only when the response holds SQL text between
\* '<sql>' and a later '</sql>', and otherwise returns sql = None with the
\* error 'Could not generate SQL query'; a result with an error has no
\* rows; the summary step is called only after a query that ran without
\* error.
C29_AskResults ==
    QueryOnlyOnSql /\ ErrorImpliesNoResults /\ SummaryOnlyAfterSuccess

============================================================================
